---- MODULE Spec2Model ----
(***************************************************************************)
(* Model of the client-side load tester: the page component Home           *)
(* (src/pages/index.js) and the web worker it spawns                       *)
(* (src/unnamed/part_000, served as /worker.js).                           *)
(*                                                                         *)
(* The main thread and every worker are single-threaded event loops: a     *)
(* handler runs to its next await and messages are delivered one at a      *)
(* time.  One action of the model is one such uninterrupted piece.         *)
(***************************************************************************)
EXTENDS Integers, Sequences, FiniteSets, TLC

----------------------------------------------------------------------------
(* Caps.  The source sets MAX_REQS_PER_SEC = 1000, MAX_TOTAL_REQS = 100000, *)
(* MAX_CONCURRENCY = 500 (index.js lines 4-6) and keeps the last 2000 rows  *)
(* (line 90).  The model keeps every formula in terms of the names and      *)
(* scales the values down so that every cap is reached by short runs.       *)
MAX_REQS_PER_SEC == 4
MAX_TOTAL_REQS == 3
MAX_CONCURRENCY == 3
MAX_ROWS == 2

(* worker.js line 62: the loop yields with sleep(0) after every 50th request *)
YIELD_EVERY == 50
(* worker.js line 16: milliseconds per second *)
MS_PER_SEC == 1000

(* Bounds of the exploration *)
MaxWorkers == 2     \* Worker objects constructed in one behaviour of Spec
MaxFetches == 3     \* fetches that settle in one behaviour of Spec
RawSlack == 1       \* how far raw operator input strays outside a legal range

----------------------------------------------------------------------------
(* Helpers *)
Min(a, b) == IF a < b THEN a ELSE b
Max(a, b) == IF a > b THEN a ELSE b

Range(s) == {s[k] : k \in DOMAIN s}

RECURSIVE SumSeq(_)
SumSeq(s) == IF s = <<>> THEN 0 ELSE Head(s) + SumSeq(Tail(s))

----------------------------------------------------------------------------
VARIABLES
    running,     \* useState(false), index.js line 13
    rows,        \* useState([]), line 14: the buffered rows, most recent first
    summary,     \* useState({sent, errors}), line 15
    workersRef,  \* workersRef.current, line 16: handles of the tracked workers
    workers,     \* every Worker object constructed so far (none is terminated)
    config,      \* the operator input of the run dispatched last
    nruns,       \* number of runs dispatched so far
    calls,       \* pushRow calls since the last reset: [n, errors]
    exported     \* the content of the CSV file exported last, as characters

vars == <<running, rows, summary, workersRef, workers, config, nruns, calls,
          exported>>

State ==
    [running |-> running, rows |-> rows, summary |-> summary,
     workersRef |-> workersRef, workers |-> workers, config |-> config,
     nruns |-> nruns, calls |-> calls]

Apply(s) ==
    /\ running' = s.running
    /\ rows' = s.rows
    /\ summary' = s.summary
    /\ workersRef' = s.workersRef
    /\ workers' = s.workers
    /\ config' = s.config
    /\ nruns' = s.nruns
    /\ calls' = s.calls
    /\ exported' = exported

NoConfig == [url |-> "", concurrency |-> 0, totalRequests |-> 0, targetRps |-> 0]

InitState ==
    [running |-> FALSE, rows |-> <<>>, summary |-> [sent |-> 0, errors |-> 0],
     workersRef |-> <<>>, workers |-> <<>>, config |-> NoConfig,
     nruns |-> 0, calls |-> [n |-> 0, errors |-> 0]]

Init ==
    /\ running = InitState.running
    /\ rows = InitState.rows
    /\ summary = InitState.summary
    /\ workersRef = InitState.workersRef
    /\ workers = InitState.workers
    /\ config = InitState.config
    /\ nruns = InitState.nruns
    /\ calls = InitState.calls
    /\ exported = <<>>

----------------------------------------------------------------------------
(* startTest, index.js lines 26-76 *)

(* Number(v) || 1 followed by the clamp, lines 31-33.  Raw input is an      *)
(* integer here; 0 (like NaN) is falsy and becomes 1.                       *)
SanitizeNoCap(v, cap) == Max(1, IF v = 0 THEN 1 ELSE v)
Sanitize(v, cap) == Min(Max(1, IF v = 0 THEN 1 ELSE v), cap)

(* lines 36-37 *)
PerWorkerRpsNoFloor(rps, c) == rps \div c
PerWorkerRps(rps, c) == Max(1, rps \div c)
EstimatedTotalRps(rps, c) == PerWorkerRps(rps, c) * c

(* lines 51-55: the request count of the worker spawned at loop index i *)
AssignedOffByOne(trs, c, i) == (trs \div c) + (IF i <= (trs % c) THEN 1 ELSE 0)
Assigned(trs, c, i) == (trs \div c) + (IF i < (trs % c) THEN 1 ELSE 0)

(* lines 56-63: the Worker object right after new Worker and the posted     *)
(* start command; closureSent is summary.sent as the onmessage closure of   *)
(* lines 64-73 sees it (the value of the render that ran startTest).        *)
(* inbox: commands posted to the worker and not yet handled by it.          *)
(* outbox: row events posted by the worker and not yet handled by the page. *)
(* dones: the payloads of the done events the worker has posted.  The page  *)
(* ignores done and stopped events (lines 68-72 have no effect for them),   *)
(* so their delivery is no step of the model and they are not queued.       *)
(* posted: the number of row events the worker has posted.                  *)
(* sleepMs: the delay of the pending sleep (line 60 or 62), 0 when none.    *)
(* elapsedLoop: the loop time measured last (line 58), 0 before the first.  *)
NewWorker(i, url, trs, c, perWorkerRps, seenSent, run) ==
    [id |-> i + 1, url |-> url, requests |-> Assigned(trs, c, i),
     rps |-> perWorkerRps, closureSent |-> seenSent, run |-> run,
     pc |-> "new", i |-> 0, sent |-> 0, stopped |-> FALSE,
     inbox |-> <<"start">>, outbox |-> <<>>, dones |-> <<>>,
     posted |-> 0, sleepMs |-> 0, elapsedLoop |-> 0]

(* the early returns of startTest: line 27 (no url), line 28 (a run is      *)
(* active), lines 39-41 (the operator declines the confirm dialog)          *)
ProceedsUnconfirmed(s, url, confirmed) == url # "" /\ ~s.running
ProceedsWhileRunning(s, url, confirmed) == url # "" /\ confirmed
Proceeds(s, url, confirmed) == url # "" /\ ~s.running /\ confirmed

startTest(s, url, concurrency, totalRequests, targetRps, confirmed) ==
    IF ~Proceeds(s, url, confirmed) THEN s
    ELSE
      LET c == Sanitize(concurrency, MAX_CONCURRENCY)
          trs == Sanitize(totalRequests, MAX_TOTAL_REQS)
          rps == Sanitize(targetRps, MAX_REQS_PER_SEC)
          perWorkerRps == PerWorkerRps(rps, c)
          n == Len(s.workers)
      IN      [s EXCEPT
                 !.rows = <<>>,                               \* line 44
                 !.summary = [sent |-> 0, errors |-> 0],      \* line 46
                 !.running = TRUE,                            \* line 47
                 !.workers = s.workers \o
                     [k \in 1..c |-> NewWorker(k - 1, url, trs, c, perWorkerRps,
                                               s.summary.sent, s.nruns + 1)],
                 !.workersRef = [k \in 1..c |-> n + k],       \* lines 50, 74
                 !.config = [url |-> url, concurrency |-> concurrency,
                             totalRequests |-> totalRequests,
                             targetRps |-> targetRps],
                 !.nruns = s.nruns + 1,
                 !.calls = [n |-> 0, errors |-> 0]]

----------------------------------------------------------------------------
(* stopTest, index.js lines 78-84 *)
stopTestKeepsRef(s) ==
    [s EXCEPT
       !.workers = [h \in DOMAIN s.workers |->
                      IF h \in Range(s.workersRef)
                      THEN [s.workers[h] EXCEPT !.inbox = Append(@, "stop")]
                      ELSE s.workers[h]],
       !.running = FALSE]

stopTest(s) ==
    [s EXCEPT
       !.workers = [h \in DOMAIN s.workers |->
                      IF h \in Range(s.workersRef)
                      THEN [s.workers[h] EXCEPT !.inbox = Append(@, "stop")]
                      ELSE s.workers[h]],
       !.workersRef = <<>>,
       !.running = FALSE]

----------------------------------------------------------------------------
(* pushRow, index.js lines 86-99.  seenSent is the summary.sent that the    *)
(* calling closure holds.                                                   *)
PushFrontShift(r, prev) ==
    LET next == <<r>> \o prev
    IN IF Len(next) > MAX_ROWS THEN SubSeq(next, 2, Len(next)) ELSE next

PushBack(r, prev) ==
    LET next == prev \o <<r>>
    IN IF Len(next) > MAX_ROWS THEN SubSeq(next, 2, Len(next)) ELSE next

PushFront(r, prev) ==
    LET next == <<r>> \o prev
    IN IF Len(next) > MAX_ROWS THEN SubSeq(next, 1, Len(next) - 1) ELSE next

CountOkOnly(s, r) ==
    [sent |-> s.sent + (IF r.error THEN 0 ELSE 1),
     errors |-> s.errors + (IF r.error THEN 1 ELSE 0)]

Count(s, r) == [sent |-> s.sent + 1, errors |-> s.errors + (IF r.error THEN 1 ELSE 0)]

pushRow(s, r, seenSent) ==
    LET s1 == [s EXCEPT
                 !.rows = PushFront(r, s.rows),
                 !.summary = Count(s.summary, r),
                 !.calls = [n |-> s.calls.n + 1,
                            errors |-> s.calls.errors + (IF r.error THEN 1 ELSE 0)]]
    IN IF seenSent + 1 >= MAX_TOTAL_REQS THEN stopTest(s1) ELSE s1

----------------------------------------------------------------------------
(* The worker, worker.js lines 10-69 *)

(* statusCode: null of a failed fetch, line 49 (no number a response or a   *)
(* clock difference can give)                                               *)
Null == -1

(* line 16 *)
IntervalMsCeil(rps) == Max(1, (MS_PER_SEC + Max(1, rps) - 1) \div Max(1, rps))
IntervalMs(rps) == Max(1, MS_PER_SEC \div Max(1, rps))
(* lines 58-59 *)
WaitMs(rps, elapsedLoop) == IntervalMs(rps) - elapsedLoop

DonePayload(w) == [workerId |-> w.id, sent |-> w.sent]

(* lines 18-19 and 64: the loop condition and the stop check at the top of  *)
(* an iteration; leaving the loop posts the done event.                     *)
loopTopIgnoresStop(w) ==
    IF w.i < w.requests
    THEN [w EXCEPT !.pc = "fetch"]
    ELSE [w EXCEPT !.pc = "done", !.dones = Append(@, DonePayload(w))]

loopTopOffByOne(w) ==
    IF w.i <= w.requests /\ ~w.stopped
    THEN [w EXCEPT !.pc = "fetch"]
    ELSE [w EXCEPT !.pc = "done", !.dones = Append(@, DonePayload(w))]

loopTop(w) ==
    IF w.i < w.requests /\ ~w.stopped
    THEN [w EXCEPT !.pc = "fetch"]
    ELSE [w EXCEPT !.pc = "done", !.dones = Append(@, DonePayload(w))]

(* lines 12-20: the start command runs up to the first await fetch *)
onStart(w) ==
    loopTop([w EXCEPT !.stopped = FALSE, !.i = 0, !.sent = 0, !.inbox = Tail(@)])

(* lines 65-67: the stop command (its stopped event is ignored by the page) *)
onStop(w) == [w EXCEPT !.stopped = TRUE, !.inbox = Tail(@)]

(* lines 31-41 (statusCode from the response) and 44-54 (statusCode null).  *)
(* The timestamp of a row is abstracted to (run, ordinal of the request in  *)
(* its worker): it grows with every request of a worker.                    *)
Row(w, statusCode, elapsed) ==
    [timestamp |-> <<w.run, w.i + 1>>,
     workerId |-> w.id,
     statusCode |-> statusCode,
     timeMs |-> elapsed,
     error |-> IF statusCode = Null THEN TRUE ELSE statusCode >= 400]

(* lines 21-63: the fetch settles after elapsed ms, the row is posted,      *)
(* sent++, the loop time elapsedLoop >= elapsed is measured (line 58), and  *)
(* the loop either suspends in sleep (lines 60, 62) or runs on to the next  *)
(* check.                                                                   *)
fetchDone(w, statusCode, elapsed, elapsedLoop) ==
    LET w1 == [w EXCEPT
                 !.outbox = Append(@, [event |-> "row",
                                       payload |-> Row(w, statusCode, elapsed)]),
                 !.posted = @ + 1,
                 !.sent = @ + 1,
                 !.elapsedLoop = elapsedLoop]
        wait == WaitMs(w.rps, elapsedLoop)
    IN IF wait > 0 \/ w1.sent % YIELD_EVERY = 0
       THEN [w1 EXCEPT !.pc = "sleep", !.sleepMs = Max(0, wait)]
       ELSE loopTop([w1 EXCEPT !.i = @ + 1])

(* the sleep of line 60 or 62 ends: i++ and the next check *)
wake(w) == loopTop([w EXCEPT !.i = @ + 1, !.sleepMs = 0])

----------------------------------------------------------------------------
(* exportCSV, index.js lines 101-106.  Text is a sequence of characters     *)
(* (one-character strings; a column name of the header is kept whole).      *)
DQ == "\""
COMMA == ","
NL == "\n"

DigitChars == <<"0", "1", "2", "3", "4", "5", "6", "7", "8", "9">>

(* String(n) of a template literal, for a number n >= 0 *)
RECURSIVE NumberToString(_)
NumberToString(n) ==
    IF n < 10 THEN <<DigitChars[n + 1]>>
    ELSE Append(NumberToString(n \div 10), DigitChars[(n % 10) + 1])

(* ${v || ""}: null and 0 are falsy and give the empty string *)
OrEmpty(v) == IF v = Null \/ v = 0 THEN <<>> ELSE NumberToString(v)

(* .replace(/"/g, '""') *)
RECURSIVE EscapeQuotes(_)
EscapeQuotes(cs) ==
    IF cs = <<>> THEN <<>>
    ELSE (IF Head(cs) = DQ THEN <<DQ, DQ>> ELSE <<Head(cs)>>) \o EscapeQuotes(Tail(cs))

(* line 102 *)
CsvHeader ==
    <<"timestamp", COMMA, "workerId", COMMA, "statusCode", COMMA, "timeMs", COMMA,
      "snippet", COMMA, "error">>

(* line 104: the line of one row *)
CsvLine(r) ==
    r.timestamp \o <<COMMA>> \o NumberToString(r.workerId) \o <<COMMA>>
      \o OrEmpty(r.statusCode) \o <<COMMA>> \o OrEmpty(r.timeMs) \o <<COMMA>>
      \o <<DQ>> \o EscapeQuotes(r.snippet) \o <<DQ>> \o <<COMMA>>
      \o (IF r.error THEN <<"1">> ELSE <<"0">>)

(* lines 103 and 106: rs.slice().reverse().map(line), after the header,     *)
(* joined with "\n"                                                         *)
RECURSIVE JoinReversed(_)
JoinReversed(rs) ==
    IF rs = <<>> THEN <<>>
    ELSE JoinReversed(Tail(rs)) \o <<NL>> \o CsvLine(Head(rs))

exportCSV(rs) == CsvHeader \o JoinReversed(rs)

----------------------------------------------------------------------------
(* Inputs *)
Urls == {"", "u"}
(* how a fetch settles in the runs explored, <<statusCode, elapsed ms,      *)
(* elapsedLoop ms>>: a quick success (the worker then sleeps, line 60) or   *)
(* a transport failure that took a whole interval (no sleep, the loop runs  *)
(* on)                                                                      *)
Outcomes == {<<200, 0, 0>>, <<Null, MS_PER_SEC, MS_PER_SEC>>}

(* operator input of the runs explored with their workers: one worker up to *)
(* the total cap, two workers sharing three requests, and two workers with  *)
(* a single request (the second worker is assigned none)                    *)
RunInputs == {<<1, MAX_TOTAL_REQS, 1>>, <<2, 3, 1>>, <<2, 1, MAX_REQS_PER_SEC>>}

(* operator input of a run and of the run started after it was stopped: one *)
(* worker up to the total cap, one worker with a single request             *)
RestartInputs == {<<1, MAX_TOTAL_REQS, 1>>, <<1, 1, 1>>}

(* raw operator input, in and beyond the legal ranges *)
RawConcurrency == (0 - RawSlack)..(MAX_CONCURRENCY + RawSlack)
RawTotalRequests == (0 - RawSlack)..(MAX_TOTAL_REQS + RawSlack)
RawTargetRps == (0 - RawSlack)..(MAX_REQS_PER_SEC + RawSlack)

----------------------------------------------------------------------------
(* Actions *)

(* fetches settled so far, over all workers *)
Settled == SumSeq([k \in DOMAIN workers |-> workers[k].sent])

WithWorker(s, h, w) == [s EXCEPT !.workers[h] = w]

StartTest ==
    \E url \in Urls, in \in RunInputs, confirmed \in BOOLEAN :
       /\ Len(workers) + in[1] <= MaxWorkers
       /\ Apply(startTest(State, url, in[1], in[2], in[3], confirmed))

StopTest ==
    /\ running \in BOOLEAN
    /\ Apply(stopTest(State))

WorkerStart ==
    \E h \in DOMAIN workers :
       /\ workers[h].pc = "new"
       /\ workers[h].inbox # <<>> /\ Head(workers[h].inbox) = "start"
       /\ Apply(WithWorker(State, h, onStart(workers[h])))

WorkerStop ==
    \E h \in DOMAIN workers :
       /\ workers[h].pc \in {"fetch", "sleep", "done"}
       /\ workers[h].inbox # <<>> /\ Head(workers[h].inbox) = "stop"
       /\ Apply(WithWorker(State, h, onStop(workers[h])))

WorkerFetchDone ==
    \E h \in DOMAIN workers :
       /\ workers[h].pc = "fetch"
       /\ Settled < MaxFetches
       /\ \E o \in Outcomes :
             Apply(WithWorker(State, h, fetchDone(workers[h], o[1], o[2], o[3])))

WorkerWake ==
    \E h \in DOMAIN workers :
       /\ workers[h].pc = "sleep"
       /\ Apply(WithWorker(State, h, wake(workers[h])))

(* worker.onmessage, index.js lines 64-73: one posted event is delivered *)
Delivered(s, h) == [s EXCEPT !.workers[h].outbox = Tail(@)]

onmessage(s, h) ==
    LET msg == Head(s.workers[h].outbox)
    IN IF msg.event = "row"
       THEN pushRow(Delivered(s, h), msg.payload, s.workers[h].closureSent)
       ELSE Delivered(s, h)

OnRow ==
    \E h \in DOMAIN workers :
       /\ workers[h].outbox # <<>>
       /\ Apply(onmessage(State, h))

Next ==
    \/ StartTest
    \/ StopTest
    \/ WorkerStart
    \/ WorkerStop
    \/ WorkerFetchDone
    \/ WorkerWake
    \/ OnRow

Spec == Init /\ [][Next]_vars

(* One start over every raw operator input, and the stop that follows it *)
StartAny ==
    /\ nruns < 1
    /\ \E url \in Urls, concurrency \in RawConcurrency,
          totalRequests \in RawTotalRequests, targetRps \in RawTargetRps,
          confirmed \in BOOLEAN :
          Apply(startTest(State, url, concurrency, totalRequests, targetRps, confirmed))

NextStart == StartAny \/ StopTest

SpecStart == Init /\ [][NextStart]_vars

(* One run seen from its workers: every way a fetch can settle, the rows   *)
(* left in the outboxes, where each outbox is the log of what its worker   *)
(* posted.                                                                  *)
(* <<statusCode, elapsed ms, elapsedLoop ms>>: a quick success, a success   *)
(* whose body took long to read, an HTTP error and a transport failure      *)
UnitOutcomes ==
    {<<200, 0, 0>>, <<200, 100, MS_PER_SEC>>, <<404, 300, 300>>,
     <<Null, MS_PER_SEC + 200, MS_PER_SEC + 200>>}

UnitConcurrency == {1, 2}

StartUnit ==
    /\ nruns < 1
    /\ \E concurrency \in UnitConcurrency, totalRequests \in 1..MAX_TOTAL_REQS,
          targetRps \in 1..MAX_REQS_PER_SEC :
          Apply(startTest(State, "u", concurrency, totalRequests, targetRps, TRUE))

UnitFetchDone ==
    \E h \in DOMAIN workers :
       /\ workers[h].pc = "fetch"
       /\ \E o \in UnitOutcomes :
             Apply(WithWorker(State, h, fetchDone(workers[h], o[1], o[2], o[3])))

NextUnit ==
    \/ StartUnit
    \/ StopTest
    \/ WorkerStart
    \/ WorkerStop
    \/ UnitFetchDone
    \/ WorkerWake

SpecUnit == Init /\ [][NextUnit]_vars

(* A run, its stop and the run started after it *)
StartAgain ==
    \E in \in RestartInputs :
       /\ Len(workers) + in[1] <= MaxWorkers
       /\ Apply(startTest(State, "u", in[1], in[2], in[3], TRUE))

NextRestart ==
    \/ StartAgain
    \/ StopTest
    \/ WorkerStart
    \/ WorkerStop
    \/ WorkerFetchDone
    \/ WorkerWake
    \/ OnRow

SpecRestart == Init /\ [][NextRestart]_vars

(* The export of a buffer: the rows the page can hold, with their text      *)
(* fields as characters, and the Export CSV button (line 141, disabled      *)
(* while the buffer is empty).                                              *)
CsvTimestamps == {<<"T", "1">>, <<"T", "2">>}
CsvWorkerIds == {1, 12}
CsvStatusCodes == {Null, 200, 404}
CsvTimes == {0, 35}
CsvSnippets == {<<>>, <<"a">>, <<DQ>>, <<"a", DQ, COMMA, NL>>}

CsvRows ==
    {[timestamp |-> ts, workerId |-> id, statusCode |-> sc, timeMs |-> ms,
      snippet |-> sn, error |-> (sc = Null \/ sc >= 400)] :
        ts \in CsvTimestamps, id \in CsvWorkerIds, sc \in CsvStatusCodes,
        ms \in CsvTimes, sn \in CsvSnippets}

InitCsv ==
    /\ rows \in UNION {[1..n -> CsvRows] : n \in 0..MAX_ROWS}
    /\ running = InitState.running
    /\ summary = [sent |-> Len(rows),
                  errors |-> Cardinality({k \in DOMAIN rows : rows[k].error})]
    /\ workersRef = InitState.workersRef
    /\ workers = InitState.workers
    /\ config = InitState.config
    /\ nruns = InitState.nruns
    /\ calls = [n |-> summary.sent, errors |-> summary.errors]
    /\ exported = <<>>

ExportCSV ==
    /\ rows # <<>>
    /\ exported' = exportCSV(rows)
    /\ UNCHANGED <<running, rows, summary, workersRef, workers, config, nruns, calls>>

SpecCsv == InitCsv /\ [][ExportCSV]_vars

----------------------------------------------------------------------------
(* Properties *)

(* what the run dispatched last was given *)
Requests == [k \in DOMAIN workersRef |-> workers[workersRef[k]].requests]
Rates == [k \in DOMAIN workersRef |-> workers[workersRef[k]].rps]

Clamp(v, lo, hi) == IF v < lo THEN lo ELSE IF v > hi THEN hi ELSE v

(* q is floor(a / b), stated without integer division *)
IsFloorDiv(q, a, b) == q * b <= a /\ a < (q + 1) * b

(* C1: for in-range totalRequests and concurrency, start tracks exactly    *)
(* concurrency workers, their request counts sum to totalRequests, the     *)
(* first (totalRequests mod concurrency) workers by index get base + 1 and *)
(* the rest base, so any two counts differ by at most 1; concurrency 3     *)
(* and totalRequests 10 give 4, 3, 3.                                       *)
C1_Partition ==
    /\ running /\ config.concurrency \in 1..MAX_CONCURRENCY
               /\ config.totalRequests \in 1..MAX_TOTAL_REQS
       => LET c == config.concurrency
              trs == config.totalRequests
          IN /\ Len(workersRef) = c
             /\ SumSeq(Requests) = trs
             /\ \E base \in 0..trs, rem \in 0..(c - 1) :
                   /\ trs = base * c + rem
                   /\ \A k \in 1..c :
                         Requests[k] = IF k <= rem THEN base + 1 ELSE base
             /\ \A j, k \in 1..c : Requests[j] - Requests[k] <= 1
             /\ \A k \in 1..c : workers[workersRef[k]].id = k
    /\ [i \in 1..3 |-> Assigned(10, 3, i - 1)] = <<4, 3, 3>>

C1_Witness ==
    /\ running
    /\ config.concurrency = 2 /\ config.totalRequests = 3
    /\ Requests = <<2, 1>>

(* C2: for in-range targetRps and concurrency, every worker is given the   *)
(* same rate max(1, floor(targetRps / concurrency)), which is at least 1,  *)
(* and the estimate perWorkerRps * concurrency is at most                  *)
(* max(targetRps, concurrency); targetRps 5 and concurrency 3 give 1 and 3. *)
C2_PerWorkerRate ==
    /\ running /\ config.concurrency \in 1..MAX_CONCURRENCY
               /\ config.targetRps \in 1..MAX_REQS_PER_SEC
       => LET c == config.concurrency
              rps == config.targetRps
              p == Rates[1]
          IN /\ \A k \in DOMAIN Rates : Rates[k] = p
             /\ p >= 1
             /\ \E q \in 0..rps : IsFloorDiv(q, rps, c) /\ p = Max(1, q)
             /\ EstimatedTotalRps(rps, c) = p * c
             /\ p * c <= Max(rps, c)
    /\ PerWorkerRps(5, 3) = 1 /\ EstimatedTotalRps(5, 3) = 3

C2_Witness ==
    /\ running
    /\ config.concurrency = 3 /\ config.targetRps = 2
    /\ Rates = <<1, 1, 1>>

(* C3: whatever integers the operator enters, a confirmed start on a url   *)
(* dispatches a run (it never rejects for range), with concurrency clamped *)
(* into 1..MAX_CONCURRENCY, totalRequests into 1..MAX_TOTAL_REQS and       *)
(* targetRps into 1..MAX_REQS_PER_SEC; an in-range value is kept.          *)
C3_Clamped ==
    /\ running
       => LET c == Clamp(config.concurrency, 1, MAX_CONCURRENCY)
              trs == Clamp(config.totalRequests, 1, MAX_TOTAL_REQS)
              rps == Clamp(config.targetRps, 1, MAX_REQS_PER_SEC)
          IN /\ Len(workersRef) = c
             /\ SumSeq(Requests) = trs
             /\ \E q \in 0..rps :
                   /\ IsFloorDiv(q, rps, c)
                   /\ \A k \in DOMAIN Rates : Rates[k] = Max(1, q)
    /\ ~running
       => \A concurrency \in RawConcurrency, totalRequests \in RawTotalRequests,
             targetRps \in RawTargetRps :
             startTest(State, "u", concurrency, totalRequests, targetRps, TRUE).running

C3_Witness ==
    /\ running
    /\ config.concurrency > MAX_CONCURRENCY
    /\ config.totalRequests < 1
    /\ config.targetRps > MAX_REQS_PER_SEC
    /\ Len(workersRef) = MAX_CONCURRENCY

----------------------------------------------------------------------------
(* every way the operator can press Start in the runs explored *)
StartResults(s) ==
    {startTest(s, url, in[1], in[2], in[3], confirmed) :
        url \in Urls, in \in RunInputs, confirmed \in BOOLEAN}

(* C4: start spawns no worker and posts nothing unless the url is non-empty *)
(* and the operator confirmed; a start without url or with the             *)
(* confirmation declined leaves the whole state unchanged.                 *)
C4_ConfirmGate ==
    \A url \in Urls, in \in RunInputs, confirmed \in BOOLEAN :
       LET t == startTest(State, url, in[1], in[2], in[3], confirmed)
       IN /\ (url = "" \/ ~confirmed) => t = State
          /\ t.workers # workers => url # "" /\ confirmed

C4_Witness ==
    /\ ~running /\ nruns = 1 /\ rows # <<>> /\ summary.sent > 0
    /\ startTest(State, "u", 1, 1, 1, FALSE) = State
    /\ startTest(State, "u", 1, 1, 1, TRUE) # State

(* C5: a start while a run is active changes nothing: no worker is         *)
(* spawned, no command is posted, rows, summary and run state stay.        *)
C5_StartWhileRunning ==
    running => \A t \in StartResults(State) : t = State

C5_Witness ==
    /\ running /\ Len(workersRef) = 2 /\ summary.sent > 0
    /\ \E h \in DOMAIN workers : workers[h].pc = "fetch"

(* C6: stopping twice leaves the same state as stopping once, and a stop   *)
(* while no run is active changes nothing.                                 *)
C6_StopIdempotent ==
    /\ stopTest(stopTest(State)) = stopTest(State)
    /\ ~running => stopTest(State) = State

C6_Witness ==
    /\ ~running /\ nruns = 1
    /\ \E h \in DOMAIN workers : workers[h].inbox = <<"stop">> /\ workers[h].pc = "fetch"

(* C7: the buffer never holds more than MAX_ROWS rows; every delivered row *)
(* becomes the head, the rows before it keep their order behind it, and    *)
(* only the last one is dropped, exactly when the buffer was full; nothing *)
(* else changes the buffer except the reset of a start.                    *)
Pushed(h) ==
    /\ workers[h].outbox # <<>>
    /\ Len(workers'[h].outbox) < Len(workers[h].outbox)

C7_Buffer ==
    /\ [](Len(rows) <= MAX_ROWS)
    /\ [][/\ \A h \in DOMAIN workers :
               Pushed(h) =>
                  /\ rows' # <<>>
                  /\ Head(rows') = Head(workers[h].outbox).payload
                  /\ Len(rows') = Min(Len(rows) + 1, MAX_ROWS)
                  /\ Tail(rows') = SubSeq(rows, 1, Len(rows') - 1)
          /\ rows' # rows =>
                \/ \E h \in DOMAIN workers : Pushed(h)
                \/ rows' = <<>> /\ ~running /\ running'
         ]_vars

C7_Witness ==
    /\ calls.n > MAX_ROWS
    /\ Len(rows) = MAX_ROWS
    /\ rows[1].workerId # rows[2].workerId

(* C8: summary.sent is the number of pushRow calls since the run started   *)
(* and summary.errors the number of those with error set, whatever was     *)
(* evicted; neither decreases while the run goes on.                       *)
C8_Counters ==
    /\ [](summary.sent = calls.n /\ summary.errors = calls.errors)
    /\ [][running /\ running' =>
             summary'.sent >= summary.sent /\ summary'.errors >= summary.errors]_vars

C8_Witness ==
    /\ running
    /\ calls.n > MAX_ROWS /\ Len(rows) = MAX_ROWS
    /\ summary.errors > 0 /\ summary.errors < summary.sent

(* C9: when a delivered row brings summary.sent of the active run to       *)
(* MAX_TOTAL_REQS, that same step stops the run: the run state leaves      *)
(* running and the tracked workers are told to stop.                       *)
C9_CapacityStop ==
    [][running /\ summary.sent + 1 = MAX_TOTAL_REQS
               /\ summary'.sent = MAX_TOTAL_REQS
          => ~running' /\ workersRef' = <<>>]_vars

(* C10: once the run has stopped, rows and summary do not change until a   *)
(* new run starts.                                                         *)
C10_NoRowsAfterStop ==
    [][~running /\ ~running' => rows' = rows /\ summary' = summary]_vars

----------------------------------------------------------------------------
(* the rows a worker has posted, in the order posted (no row is delivered  *)
(* under SpecUnit, so the outbox holds them all)                            *)
Emitted(w) == [k \in DOMAIN w.outbox |-> w.outbox[k].payload]

(* C11: a worker assigned n requests (n >= 0) and never told to stop posts *)
(* exactly n rows, the k-th for its k-th request, whatever the outcomes,   *)
(* and then exactly one done event with sent = n, and none before; a row   *)
(* has error set exactly when the fetch failed or the status is >= 400,    *)
(* and statusCode null exactly when the fetch failed.                      *)
C11_UnitCompletes ==
    \A h \in DOMAIN workers :
       LET w == workers[h]
           e == Emitted(w)
       IN /\ Len(w.dones) <= 1
          /\ Len(e) <= w.requests
          /\ \A k \in DOMAIN e :
                /\ e[k].timestamp = <<w.run, k>> /\ e[k].workerId = w.id
                /\ e[k].error = (e[k].statusCode = Null \/ e[k].statusCode >= 400)
          /\ ~w.stopped /\ w.pc # "done" => w.dones = <<>>
          /\ ~w.stopped /\ w.pc = "done" =>
                /\ Len(e) = w.requests
                /\ w.dones = <<[workerId |-> w.id, sent |-> w.requests]>>

C11_Witness ==
    \E h \in DOMAIN workers :
       LET w == workers[h]
       IN /\ ~w.stopped /\ w.pc = "done" /\ w.inbox = <<>>
          /\ w.requests = MAX_TOTAL_REQS
          /\ Len(w.outbox) = MAX_TOTAL_REQS
          /\ \A k \in DOMAIN w.outbox :
                w.outbox[k].payload.statusCode = Null /\ w.outbox[k].payload.error
          /\ w.dones = <<[workerId |-> w.id, sent |-> MAX_TOTAL_REQS]>>

----------------------------------------------------------------------------
(* the stop command has been posted to worker w *)
StopPosted(w) == w.stopped \/ "stop" \in Range(w.inbox)

(* C12: the step that ends a run posts the stop command to every worker of *)
(* that run, and no worker of a run that is over is left without it; a     *)
(* worker that has handled the command stays stopped, never begins a fetch *)
(* again, posts a row only for the fetch that was in flight (after which   *)
(* no fetch is in flight, so at most one), and leaves its sleep only to    *)
(* exit the loop; a worker never posts more rows than it was assigned.     *)
C12_CooperativeStop ==
    /\ [](\A h \in DOMAIN workers :
            /\ workers[h].posted <= workers[h].requests
            /\ workers[h].run < nruns \/ ~running => StopPosted(workers[h]))
    /\ [][/\ running /\ ~running' =>
               \A h \in DOMAIN workers :
                  workers[h].run = nruns =>
                     workers'[h].inbox = Append(workers[h].inbox, "stop")
          /\ \A h \in DOMAIN workers :
                LET w == workers[h]
                    v == workers'[h]
                IN w.stopped =>
                      /\ v.stopped
                      /\ v.pc = "fetch" => w.pc = "fetch" /\ v.posted = w.posted
                      /\ v.posted # w.posted =>
                            w.pc = "fetch" /\ v.posted = w.posted + 1
                      /\ w.pc = "sleep" /\ v.pc # "sleep" => v.pc = "done"
                      /\ w.pc = "done" => v.pc = "done"
         ]_vars

C12_Witness ==
    /\ ~running
    /\ \E h \in DOMAIN workers :
          LET w == workers[h]
          IN /\ w.stopped /\ w.pc = "done"
             /\ w.posted = 1 /\ w.posted < w.requests
             /\ w.dones = <<[workerId |-> w.id, sent |-> 1]>>

----------------------------------------------------------------------------
(* every worker has left its loop and posted done, every command and every *)
(* row has been handled: no step of the page or of a worker is left, only  *)
(* the operator can act                                                     *)
AllDone ==
    /\ nruns > 0
    /\ \A h \in DOMAIN workers :
          /\ workers[h].pc = "done" /\ Len(workers[h].dones) = 1
          /\ workers[h].inbox = <<>> /\ workers[h].outbox = <<>>

(* C13: once every worker of the run has posted done and all its events    *)
(* are handled, the run is no longer running (the state from which nothing *)
(* but an operator action can follow must already have left running).      *)
C13_DoneEndsRun == AllDone => ~running

----------------------------------------------------------------------------
(* Reading a CSV text back: records end at a line break outside quotes,    *)
(* fields at a comma outside quotes, a quoted field ends at a quote that   *)
(* is not doubled and a doubled quote inside it is one quote.              *)
RECURSIVE ParseCsv(_, _, _, _, _)
ParseCsv(cs, quoted, field, record, records) ==
    IF cs = <<>> THEN Append(records, Append(record, field))
    ELSE LET c == Head(cs)
             rest == Tail(cs)
         IN IF quoted
            THEN IF c # DQ THEN ParseCsv(rest, TRUE, Append(field, c), record, records)
                 ELSE IF rest # <<>> /\ Head(rest) = DQ
                      THEN ParseCsv(Tail(rest), TRUE, Append(field, DQ), record, records)
                      ELSE ParseCsv(rest, FALSE, field, record, records)
            ELSE IF c = DQ THEN ParseCsv(rest, TRUE, field, record, records)
                 ELSE IF c = COMMA
                      THEN ParseCsv(rest, FALSE, <<>>, Append(record, field), records)
                 ELSE IF c = NL
                      THEN ParseCsv(rest, FALSE, <<>>, <<>>,
                                    Append(records, Append(record, field)))
                 ELSE ParseCsv(rest, FALSE, Append(field, c), record, records)

(* a numeric field: empty is null, digits are the number *)
RECURSIVE ParseNumber(_)
ParseNumber(cs) ==
    IF cs = <<>> THEN Null
    ELSE LET d == CHOOSE k \in 0..9 : DigitChars[k + 1] = cs[Len(cs)]
         IN IF Len(cs) = 1 THEN d
            ELSE 10 * ParseNumber(SubSeq(cs, 1, Len(cs) - 1)) + d

ParseRow(f) ==
    [timestamp |-> f[1], workerId |-> ParseNumber(f[2]),
     statusCode |-> ParseNumber(f[3]), timeMs |-> ParseNumber(f[4]),
     snippet |-> f[5], error |-> (f[6] = <<"1">>)]

(* C14: the exported text reads back as the header and one record per      *)
(* buffered row, oldest first, each with six fields that give back the     *)
(* row's timestamp, workerId, statusCode, timeMs, snippet and error.       *)
C14_CsvRoundTrip ==
    exported # <<>> =>
       LET records == ParseCsv(exported, FALSE, <<>>, <<>>, <<>>)
           N == Len(rows)
       IN /\ Len(records) = N + 1
          /\ records[1] = <<<<"timestamp">>, <<"workerId">>, <<"statusCode">>,
                            <<"timeMs">>, <<"snippet">>, <<"error">>>>
          /\ \A k \in 1..N :
                /\ Len(records[k + 1]) = 6
                /\ ParseRow(records[k + 1]) = rows[N + 1 - k]

(* the same for buffers in which no row has timeMs = 0 *)
C14_RoundTripNonZero ==
    (\A k \in DOMAIN rows : rows[k].timeMs # 0) => C14_CsvRoundTrip

----------------------------------------------------------------------------
(* C15: a delivered row that leaves summary.sent of the active run below   *)
(* MAX_TOTAL_REQS does not stop the run, in a first run and in any later   *)
(* one.                                                                     *)
C15_StopOnlyOnCapacity ==
    [][running /\ summary'.sent = summary.sent + 1
               /\ summary'.sent < MAX_TOTAL_REQS
          => running' /\ workersRef' = workersRef]_vars

----------------------------------------------------------------------------
(* row a is of the same worker as row b and of a later request *)
LaterOfSameUnit(a, b) ==
    /\ a.workerId = b.workerId /\ a.timestamp[1] = b.timestamp[1]
    /\ a.timestamp[2] > b.timestamp[2]

SameUnit(a, b) == a.workerId = b.workerId /\ a.timestamp[1] = b.timestamp[1]

(* C16: a worker posts its rows in request order and the page keeps that   *)
(* order: of two buffered rows of one worker the one nearer the head is of *)
(* the later request, whatever was delivered in between; the rows not yet  *)
(* delivered are in request order and later than every buffered row of     *)
(* their worker; the sent of a done event is the number of rows its worker *)
(* posted.                                                                  *)
C16_UnitOrder ==
    /\ \A j, k \in DOMAIN rows :
          j < k /\ SameUnit(rows[j], rows[k]) => LaterOfSameUnit(rows[j], rows[k])
    /\ \A h \in DOMAIN workers :
          LET w == workers[h]
          IN /\ \A j, k \in DOMAIN w.outbox :
                   j < k => LaterOfSameUnit(w.outbox[k].payload, w.outbox[j].payload)
             /\ \A j \in DOMAIN w.outbox, k \in DOMAIN rows :
                   SameUnit(w.outbox[j].payload, rows[k])
                      => LaterOfSameUnit(w.outbox[j].payload, rows[k])
             /\ \A k \in DOMAIN w.dones :
                   w.dones[k] = [workerId |-> w.id, sent |-> w.posted]

C16_Witness ==
    /\ config.concurrency = 2 /\ calls.n = 3
    /\ Len(rows) = 2 /\ LaterOfSameUnit(rows[1], rows[2])
    /\ \E h \in DOMAIN workers :
          /\ workers[h].id = rows[1].workerId
          /\ workers[h].dones = <<[workerId |-> workers[h].id, sent |-> 2]>>

----------------------------------------------------------------------------
(* m is max(1, floor(1000 / r)), stated without integer division *)
IsInterval(m, r) == m >= 1 /\ (IsFloorDiv(m, MS_PER_SEC, r) \/ (m = 1 /\ MS_PER_SEC < r))

(* ms is max(0, intervalMs - elapsed) for intervalMs = max(1, floor(1000 / *)
(* max(1, rps))): a positive ms added to elapsed is the interval, and ms   *)
(* is 0 when the interval is at most elapsed, that is when elapsed >= 1    *)
(* and 1000 / max(1, rps) < elapsed + 1                                     *)
IsPacedWait(ms, rps, elapsed) ==
    IF ms > 0
    THEN IsInterval(ms + elapsed, Max(1, rps))
    ELSE ms = 0 /\ elapsed >= 1 /\ MS_PER_SEC < (elapsed + 1) * Max(1, rps)

(* C17: the delay of a worker's sleep is max(0, intervalMs - elapsedLoop)  *)
(* of the iteration just finished, with intervalMs = max(1, floor(1000 /   *)
(* max(1, rps))), whatever the earlier iterations took; it is never        *)
(* negative, and after an iteration that took intervalMs or more it is 0;  *)
(* the same for rates up to 1000 and a range of loop times.                *)
C17_Pacing ==
    /\ \A h \in DOMAIN workers :
          LET w == workers[h]
          IN /\ w.sleepMs >= 0
             /\ w.rps \in 1..MAX_REQS_PER_SEC
             /\ w.pc = "sleep" => IsPacedWait(w.sleepMs, w.rps, w.elapsedLoop)
             /\ w.pc = "sleep" /\ IsPacedWait(0, w.rps, w.elapsedLoop) => w.sleepMs = 0
             /\ w.pc # "sleep" => w.sleepMs = 0
    /\ \A rps \in {1, 2, 3, 7, 50, 333, 999, 1000},
          elapsed \in {0, 1, 2, 19, 20, 142, 143, 333, 500, 999, 1000, 5000} :
          /\ IsPacedWait(Max(0, WaitMs(rps, elapsed)), rps, elapsed)
          /\ IntervalMs(rps) >= 1
          /\ elapsed >= IntervalMs(rps) => WaitMs(rps, elapsed) <= 0

C17_Witness ==
    \E h \in DOMAIN workers :
       LET w == workers[h]
       IN /\ w.pc = "sleep" /\ w.rps = 3
          /\ Len(w.outbox) = 2
          /\ w.outbox[1].payload.timeMs > MS_PER_SEC
          /\ w.elapsedLoop = 300 /\ w.sleepMs = 33

----------------------------------------------------------------------------
(* the clamped totalRequests of the run started last *)
PlannedTotal == Clamp(config.totalRequests, 1, MAX_TOTAL_REQS)

(* C18: once a run was started, summary.sent is at most the clamped        *)
(* totalRequests of the run started last, and so at most MAX_TOTAL_REQS,   *)
(* also when an earlier run was stopped with a request in flight.          *)
C18_SentWithinPlan ==
    nruns > 0 => summary.sent <= PlannedTotal /\ summary.sent <= MAX_TOTAL_REQS

(* C19: when every worker has posted its one done event and every row is   *)
(* delivered in a run that was not stopped, summary.sent is the clamped    *)
(* totalRequests of that run (nothing but an operator action can follow,   *)
(* so a count that differs then differs for good).                         *)
C19_Completion ==
    AllDone /\ running => summary.sent = PlannedTotal

(* the same for the first run after the page was loaded *)
C19_FirstRunCompletion ==
    nruns = 1 => C19_Completion

====
